---- MODULE Spec2Model ----
(***************************************************************************)
(* Model of the user service of ozeemandias/auth: the four gRPC handlers   *)
(* Create, Get, Update and Delete, each of which runs exactly one SQL      *)
(* statement against the users table of the migration.  A statement is     *)
(* atomic in the store, everything a handler does before it is local to    *)
(* the request, so concurrent calls are interleavings of the actions.      *)
(* Strings are sequences of one-character strings, so that trimming and    *)
(* case conversion are computed, not assumed.                              *)
(***************************************************************************)
EXTENDS Integers, Sequences, FiniteSets, TLC

VARIABLES users, seq, now, last, created, removed

vars == <<users, seq, now, last, created, removed>>

\* ---------------------------------------------------------------- bounds
\* Largest value the id sequence may reach in the model.
MaxId == 2
\* Largest value of the store clock (milliseconds) in the model.
MaxTime == 1

Ids == 1..MaxId

\* ---------------------------------------------------------------- strings
Lower == <<"a","b","c","d","e","f","g","h","i","j","k","l","m",
           "n","o","p","q","r","s","t","u","v","w","x","y","z">>
Upper == <<"A","B","C","D","E","F","G","H","I","J","K","L","M",
           "N","O","P","Q","R","S","T","U","V","W","X","Y","Z">>

ToLowerChar(c) ==
    IF \E i \in DOMAIN Upper : Upper[i] = c
    THEN Lower[CHOOSE i \in DOMAIN Upper : Upper[i] = c]
    ELSE c

ToUpperChar(c) ==
    IF \E i \in DOMAIN Lower : Lower[i] = c
    THEN Upper[CHOOSE i \in DOMAIN Lower : Lower[i] = c]
    ELSE c

\* strings.ToLower
ToLower(s) == [i \in DOMAIN s |-> ToLowerChar(s[i])]

\* strings.ToUpper
ToUpper(s) == [i \in DOMAIN s |-> ToUpperChar(s[i])]

IsSpace(c) == c \in {" ", "\t", "\n", "\r"}

RECURSIVE TrimLeft(_)
TrimLeft(s) ==
    IF s # <<>> /\ IsSpace(Head(s)) THEN TrimLeft(Tail(s)) ELSE s

RECURSIVE TrimRight(_)
TrimRight(s) ==
    IF s # <<>> /\ IsSpace(s[Len(s)])
    THEN TrimRight(SubSeq(s, 1, Len(s) - 1))
    ELSE s

\* strings.TrimSpace
TrimSpace(s) == TrimRight(TrimLeft(s))

\* ---------------------------------------------------------------- roles
\* user_v1.Role: the enumeration's numbers and names.
Role_UNSPECIFIED == 0
Role_USER == 1
Role_ADMIN == 2
Roles == {Role_UNSPECIFIED, Role_USER, Role_ADMIN}

\* user_v1.Role_name / Role.String()
RoleString(r) ==
    CASE r = Role_USER  -> <<"U","S","E","R">>
      [] r = Role_ADMIN -> <<"A","D","M","I","N">>
      [] OTHER          -> <<"U","N","S","P","E","C","I","F","I","E","D">>

\* user_v1.Role_value: the names that map back to a number.
HasRoleValue(s) == \E r \in Roles : RoleString(r) = s
RoleValue(s) == CHOOSE r \in Roles : RoleString(r) = s

\* The enumeration also holds 'unspecified'.
UserRoleEnumWide ==
    { <<"u","s","e","r">>, <<"a","d","m","i","n">>,
      <<"u","n","s","p","e","c","i","f","i","e","d">> }

\* CREATE TYPE "user_role" AS ENUM ('user', 'admin')
UserRoleEnum == { <<"u","s","e","r">>, <<"a","d","m","i","n">> }

\* userRole.Scan of a NOT NULL text value
ScanRole(s) ==
    IF HasRoleValue(ToUpper(s)) THEN RoleValue(ToUpper(s)) ELSE Role_UNSPECIFIED

\* ---------------------------------------------------------------- hashing
\* bcrypt's output: version and cost prefix ($2a$04$, MinCost = 4), the salt,
\* then a digest of password and salt (a stand-in for the one-way digest).
Bcrypt(pwd, salt) ==
    <<"$","2","a","$","0","4","$">> \o salt
        \o [i \in 1..Len(pwd) |-> pwd[Len(pwd) + 1 - i]] \o salt

Salts == { <<"s">> }

\* hashAndSalt stores nothing but returns the password itself.
hashAndSaltPlain(pwd) == { [err |-> FALSE, hash |-> pwd] }

\* hashAndSalt: the outcomes of bcrypt.GenerateFromPassword, an error or a
\* hash under a fresh random salt.
hashAndSalt(pwd) ==
    { [err |-> TRUE, hash |-> <<>>] }
        \cup { [err |-> FALSE, hash |-> Bcrypt(pwd, salt)] : salt \in Salts }

\* ---------------------------------------------------------------- inputs
\* An optional string field (wrapperspb.StringValue): <<>> is nil, <<s>> is
\* present with value s.
Nil == <<>>
Some(s) == <<s>>

Blank == <<" ">>
NameA == <<" ","a">>
NameB == <<"b">>
EmailX == <<"X"," ">>
EmailY == <<"y">>
Pwd == <<"p">>

CreateReq(n, e, r) == [name |-> n, email |-> e, password |-> Pwd, role |-> r]

\* The CreateRequest messages the model sends.
CreateRequests ==
    { CreateReq(NameA, EmailX, Role_USER),
      CreateReq(NameB, EmailY, Role_USER),
      CreateReq(Blank, EmailY, Role_USER),
      CreateReq(NameA, EmailY, Role_ADMIN),
      CreateReq(NameB, EmailX, Role_ADMIN),
      CreateReq(NameB, EmailY, Role_UNSPECIFIED) }

UpdateReq(e, n, r) == [email |-> e, name |-> n, role |-> r]

\* The UpdateRequest messages the model sends (the id is chosen apart).
UpdateRequests ==
    { UpdateReq(Nil, Nil, Role_UNSPECIFIED),
      UpdateReq(Some(Blank), Some(Blank), Role_UNSPECIFIED),
      UpdateReq(Nil, Nil, Role_USER),
      UpdateReq(Nil, Nil, Role_ADMIN),
      UpdateReq(Nil, Some(NameB), Role_UNSPECIFIED),
      UpdateReq(Some(EmailY), Nil, Role_UNSPECIFIED),
      UpdateReq(Some(EmailX), Some(NameA), Role_ADMIN) }

NoCreateReq == [CreateReq(<<>>, <<>>, Role_UNSPECIFIED) EXCEPT !.password = <<>>]
NoUpdateReq == UpdateReq(Nil, Nil, Role_UNSPECIFIED)

\* ---------------------------------------------------------------- store
IdsOf(tbl) == { u.id : u \in tbl }
RowOf(tbl, id) == CHOOSE u \in tbl : u.id = id

\* No constraint is checked on INSERT.
InsertViolationNone(tbl, row) == FALSE

\* users_pkey / users_email_key / users_name_key on INSERT: a row already
\* holds the id, the name or the email.
InsertViolation(tbl, row) ==
    \E u \in tbl : u.id = row.id \/ u.name = row.name \/ u.email = row.email

\* No constraint is checked on UPDATE.
UpdateViolationNone(tbl, row) == FALSE

\* users_email_key / users_name_key on UPDATE: another row holds the name or
\* the email the row would get.
UpdateViolation(tbl, row) ==
    \E u \in tbl : u.id # row.id /\ (u.name = row.name \/ u.email = row.email)

\* updated_at defaults to a later reading of the clock than created_at.
NewRowLate(id, name, email, password, role, t) ==
    [id |-> id, name |-> name, email |-> email, password |-> password,
     role |-> role, created_at |-> t, updated_at |-> t + 1]

\* The row an INSERT stores: both timestamps default to CURRENT_TIMESTAMP.
NewRow(id, name, email, password, role, t) ==
    [id |-> id, name |-> name, email |-> email, password |-> password,
     role |-> role, created_at |-> t, updated_at |-> t]

\* The id sequence hands out the smallest id no row holds.
NextValReuse(tbl, s) == CHOOSE i \in 1..(s + 1) : i \notin IdsOf(tbl) /\
                            \A j \in 1..(i - 1) : j \in IdsOf(tbl)

\* nextval('users_id_seq') of the SERIAL column.
NextVal(tbl, s) == s + 1

NoRes == [id |-> 0, name |-> <<>>, email |-> <<>>, role |-> Role_UNSPECIFIED,
          created_at |-> 0, updated_at |-> 0]

\* The record of the call that completed last: its request, its error (with
\* the step that failed in msg) and its response; `after` is, for a Get, the request of the successful Create
\* that returned the id when that Create is the call right before it.
Call(op, id, creq, ureq, err, res, after) ==
    [op |-> op, id |-> id, creq |-> creq, ureq |-> ureq, err |-> err,
     msg |-> "", res |-> res, after |-> after]

Init ==
    /\ users = {}
    /\ seq = 0
    /\ now = 0
    /\ last = Call("None", 0, NoCreateReq, NoUpdateReq, "OK", NoRes, <<>>)
    /\ created = {}
    /\ removed = {}

\* The store clock advances.
Tick ==
    /\ now < MaxTime
    /\ now' = now + 1
    /\ UNCHANGED <<users, seq, last, created, removed>>

\* status.Errorf(codes.Internal, ...)
Fail(op, id, creq, ureq, msg) ==
    last' = [Call(op, id, creq, ureq, "Internal", NoRes, <<>>) EXCEPT !.msg = msg]

\* server.Create: hash the password, INSERT ... RETURNING id.
Create(req) ==
    /\ seq < MaxId
    /\ \E h \in hashAndSalt(req.password) :
        IF h.err
        THEN /\ Fail("Create", 0, req, NoUpdateReq, "hash")
             /\ UNCHANGED <<users, seq, now, created, removed>>
        ELSE LET role == ToLower(RoleString(req.role))
                 row == NewRow(NextVal(users, seq), TrimSpace(req.name),
                               ToLower(TrimSpace(req.email)), h.hash, role, now)
             IN  IF role \notin UserRoleEnum
                 THEN \* invalid input value for enum user_role
                      /\ Fail("Create", 0, req, NoUpdateReq, "insert")
                      /\ UNCHANGED <<users, seq, now, created, removed>>
                 ELSE IF InsertViolation(users, row)
                 THEN \* the id drawn from the sequence is not given back
                      /\ Fail("Create", 0, req, NoUpdateReq, "insert")
                      /\ seq' = row.id
                      /\ UNCHANGED <<users, now, created, removed>>
                 ELSE /\ users' = users \cup {row}
                      /\ seq' = row.id
                      /\ created' = created \cup {row.id}
                      /\ last' = Call("Create", 0, req, NoUpdateReq, "OK",
                                      [NoRes EXCEPT !.id = row.id], <<>>)
                      /\ UNCHANGED <<now, removed>>

\* The response of Get for a row: the role is scanned back to the enumeration.
GetResponse(u) ==
    [id |-> u.id, name |-> u.name, email |-> u.email, role |-> ScanRole(u.role),
     created_at |-> u.created_at, updated_at |-> u.updated_at]

\* server.Get: SELECT ... WHERE id = $1; no row is an error.
Get(id) ==
    /\ IF id \in IdsOf(users)
       THEN last' = Call("Get", id, NoCreateReq, NoUpdateReq, "OK",
                         GetResponse(RowOf(users, id)),
                         IF last.op = "Create" /\ last.err = "OK" /\ last.res.id = id
                         THEN <<last.creq>> ELSE <<>>)
       ELSE Fail("Get", id, NoCreateReq, NoUpdateReq, "select")
    /\ UNCHANGED <<users, seq, now, created, removed>>

\* The columns Update sets: each <<>> when left alone, <<v>> when set to v.
UpdateSets(req) ==
    [email |-> IF req.email # Nil /\ TrimSpace(req.email[1]) # <<>>
               THEN <<ToLower(TrimSpace(req.email[1]))>> ELSE <<>>,
     name  |-> IF req.name # Nil /\ TrimSpace(req.name[1]) # <<>>
               THEN <<TrimSpace(req.name[1])>> ELSE <<>>,
     role  |-> IF req.role # Role_UNSPECIFIED
               THEN <<ToLower(RoleString(req.role))>> ELSE <<>>]

\* updated_at is left alone.
UpdatedRowStale(u, sets, t) ==
    [u EXCEPT !.email = IF sets.email # <<>> THEN sets.email[1] ELSE @,
              !.name  = IF sets.name  # <<>> THEN sets.name[1]  ELSE @,
              !.role  = IF sets.role  # <<>> THEN sets.role[1]  ELSE @]

\* A column that is not supplied is reset instead of left alone.
UpdatedRowClobber(u, sets, t) ==
    [u EXCEPT !.email = IF sets.email # <<>> THEN sets.email[1] ELSE @,
              !.name  = IF sets.name  # <<>> THEN sets.name[1]  ELSE <<>>,
              !.role  = IF sets.role  # <<>> THEN sets.role[1]  ELSE @,
              !.updated_at = t]

\* The row after UPDATE ... SET <sets>, updated_at = NOW().
UpdatedRow(u, sets, t) ==
    [u EXCEPT !.email = IF sets.email # <<>> THEN sets.email[1] ELSE @,
              !.name  = IF sets.name  # <<>> THEN sets.name[1]  ELSE @,
              !.role  = IF sets.role  # <<>> THEN sets.role[1]  ELSE @,
              !.updated_at = t]

\* server.Update: UPDATE users SET ... WHERE id = $1; zero rows is no error.
Update(id, req) ==
    LET sets == UpdateSets(req) IN
    /\ IF sets.role # <<>> /\ sets.role[1] \notin UserRoleEnum
       THEN /\ Fail("Update", id, NoCreateReq, req, "update")
            /\ UNCHANGED users
       ELSE IF id \notin IdsOf(users)
       THEN /\ last' = Call("Update", id, NoCreateReq, req, "OK", NoRes, <<>>)
            /\ UNCHANGED users
       ELSE LET old == RowOf(users, id)
                new == UpdatedRow(old, sets, now)
            IN  IF UpdateViolation(users, new)
                THEN /\ Fail("Update", id, NoCreateReq, req, "update")
                     /\ UNCHANGED users
                ELSE /\ users' = (users \ {old}) \cup {new}
                     /\ last' = Call("Update", id, NoCreateReq, req, "OK", NoRes, <<>>)
    /\ UNCHANGED <<seq, now, created, removed>>

\* Delete removes every row.
AfterDeleteAll(tbl, id) == {}

\* The table after DELETE FROM users WHERE id = $1.
AfterDelete(tbl, id) == { u \in tbl : u.id # id }

\* server.Delete: DELETE FROM users WHERE id = $1; zero rows is no error.
Delete(id) ==
    /\ users' = AfterDelete(users, id)
    /\ last' = Call("Delete", id, NoCreateReq, NoUpdateReq, "OK", NoRes, <<>>)
    /\ removed' = removed \cup (IdsOf(users) \cap {id})
    /\ UNCHANGED <<seq, now, created>>

Next ==
    \/ Tick
    \/ \E req \in CreateRequests : Create(req)
    \/ \E id \in Ids : Get(id)
    \/ \E id \in Ids, req \in UpdateRequests : Update(id, req)
    \/ \E id \in Ids : Delete(id)

Spec == Init /\ [][Next]_vars

\* ---------------------------------------------------------------- claims
\* The values a Create request stores, and whether a row already holds one.
NormName(req) == TrimSpace(req.name)
NormEmail(req) == ToLower(TrimSpace(req.email))
Collides(tbl, req) ==
    \E u \in tbl : u.name = NormName(req) \/ u.email = NormEmail(req)

RoleOnly(r) == UpdateReq(Nil, Nil, r)
NoFields == { UpdateReq(Nil, Nil, Role_UNSPECIFIED),
              UpdateReq(Some(Blank), Some(Blank), Role_UNSPECIFIED) }

\* What an Update leaves alone: every column of the row but role and
\* updated_at, and every other row.
FrameButRole(tbl, tbl2, id) ==
    /\ IdsOf(tbl2) = IdsOf(tbl)
    /\ { u \in tbl2 : u.id # id } = { u \in tbl : u.id # id }
    /\ Cardinality({ u \in tbl2 : u.id = id }) = 1
    /\ LET old == RowOf(tbl, id)
           new == RowOf(tbl2, id)
       IN  /\ new.name = old.name
           /\ new.email = old.email
           /\ new.password = old.password
           /\ new.created_at = old.created_at

\* C1: in every reachable state no two distinct rows share a name and no two
\* distinct rows share an email, whatever Create, Update and Delete calls ran.
C1_NameEmailUnique ==
    \A u, v \in users : u # v => (u.name # v.name /\ u.email # v.email)

\* C1 witness: two rows are stored and an Update that would have given one of
\* them the other's name or email has just been refused.
C1_Witness ==
    /\ Cardinality(users) = 2
    /\ last.op = "Update" /\ last.err = "Internal"
    /\ last.id \in IdsOf(users)

\* C2: a Create whose trimmed name or trimmed, lower-cased email is already
\* held by a row fails with the Internal error and leaves the table as it was.
C2_CreateCollisionFails ==
    [][\A req \in CreateRequests :
          (last'.op = "Create" /\ last'.creq = req /\ Create(req)
              /\ Collides(users, req))
              => (last'.err = "Internal" /\ users' = users)]_vars

\* C2 witness: a Create with a valid role has just failed at the INSERT while
\* a row holds its name or its email.
C2_Witness ==
    /\ last.op = "Create" /\ last.err = "Internal" /\ last.msg = "insert"
    /\ last.creq.role # Role_UNSPECIFIED
    /\ Collides(users, last.creq)

\* C3: a successful Create returns an id that no row holds and none held
\* before; exactly one row has it afterwards, with the trimmed name, the
\* trimmed lower-cased email and a password that is not the plaintext.
C3_CreateStoresNormalized ==
    [][\A req \in CreateRequests :
          (last'.op = "Create" /\ last'.creq = req /\ last'.err = "OK"
              /\ Create(req))
              => LET id == last'.res.id IN
                 /\ id \notin created /\ id \notin IdsOf(users)
                 /\ Cardinality({ u \in users' : u.id = id }) = 1
                 /\ RowOf(users', id).name = NormName(req)
                 /\ RowOf(users', id).email = NormEmail(req)
                 /\ RowOf(users', id).password # req.password]_vars

\* C3 witness: a Create has succeeded after an earlier row was deleted, and the
\* stored name differs from the name as sent.
C3_Witness ==
    /\ last.op = "Create" /\ last.err = "OK"
    /\ removed # {}
    /\ last.res.id \in IdsOf(users)
    /\ RowOf(users, last.res.id).name # last.creq.name

\* C4: a Get that directly follows the successful Create of its id returns the
\* trimmed name, the trimmed lower-cased email, the role given to Create, and
\* created_at equal to updated_at.
C4_GetAfterCreate ==
    (last.op = "Get" /\ last.after # <<>>)
        => /\ last.err = "OK"
           /\ last.res.id = last.id
           /\ last.res.name = NormName(last.after[1])
           /\ last.res.email = NormEmail(last.after[1])
           /\ last.res.role = last.after[1].role
           /\ last.res.created_at = last.res.updated_at

\* C4 witness: such a Get has returned the admin role and a name that had to
\* be trimmed, after the clock had advanced.
C4_Witness ==
    /\ last.op = "Get" /\ last.after # <<>>
    /\ last.res.role = Role_ADMIN
    /\ last.after[1].name # last.res.name
    /\ last.res.created_at > 0

\* C5 as stated: an Update of an existing row with only the role supplied sets
\* the role, makes updated_at strictly later than it was, and changes nothing
\* else in the table.
C5_Original ==
    [][\A id \in Ids, r \in {Role_USER, Role_ADMIN} :
          (last'.op = "Update" /\ last'.id = id /\ last'.ureq = RoleOnly(r)
              /\ id \in IdsOf(users) /\ Update(id, RoleOnly(r)))
              => /\ last'.err = "OK"
                 /\ FrameButRole(users, users', id)
                 /\ ScanRole(RowOf(users', id).role) = r
                 /\ RowOf(users', id).updated_at > RowOf(users, id).updated_at]_vars

\* C5 amended: ... sets the role, sets updated_at to the store's current time,
\* which is never earlier than the prior value (and equal to it within the
\* same millisecond), and changes nothing else in the table.
C5_RoleOnlyUpdate ==
    [][\A id \in Ids, r \in {Role_USER, Role_ADMIN} :
          (last'.op = "Update" /\ last'.id = id /\ last'.ureq = RoleOnly(r)
              /\ id \in IdsOf(users) /\ Update(id, RoleOnly(r)))
              => /\ last'.err = "OK"
                 /\ FrameButRole(users, users', id)
                 /\ ScanRole(RowOf(users', id).role) = r
                 /\ RowOf(users', id).role = ToLower(RoleString(r))
                 /\ RowOf(users', id).updated_at = now
                 /\ RowOf(users', id).updated_at >= RowOf(users, id).updated_at]_vars

\* C5 witness: a role-only Update of a stored row has succeeded, the row has
\* the role and an updated_at later than its created_at.
C5_Witness ==
    /\ last.op = "Update" /\ last.err = "OK"
    /\ last.ureq = RoleOnly(Role_ADMIN)
    /\ last.id \in IdsOf(users)
    /\ RowOf(users, last.id).role = ToLower(RoleString(Role_ADMIN))
    /\ RowOf(users, last.id).updated_at > RowOf(users, last.id).created_at

\* C6 as stated: an Update of an existing row with no field supplied (absent,
\* or empty after trimming, and role unspecified) succeeds, advances
\* updated_at and changes nothing else.
C6_Original ==
    [][\A id \in Ids, req \in NoFields :
          (last'.op = "Update" /\ last'.id = id /\ last'.ureq = req
              /\ id \in IdsOf(users) /\ Update(id, req))
              => /\ last'.err = "OK"
                 /\ FrameButRole(users, users', id)
                 /\ RowOf(users', id).role = RowOf(users, id).role
                 /\ RowOf(users', id).updated_at > RowOf(users, id).updated_at]_vars

\* C6 amended: ... succeeds, sets updated_at to the store's current time, which
\* is never earlier than the prior value (and equal to it within the same
\* millisecond), and changes nothing else.
C6_EmptyUpdate ==
    [][\A id \in Ids, req \in NoFields :
          (last'.op = "Update" /\ last'.id = id /\ last'.ureq = req
              /\ id \in IdsOf(users) /\ Update(id, req))
              => /\ last'.err = "OK"
                 /\ FrameButRole(users, users', id)
                 /\ RowOf(users', id).role = RowOf(users, id).role
                 /\ RowOf(users', id).updated_at = now
                 /\ RowOf(users', id).updated_at >= RowOf(users, id).updated_at]_vars

\* C6 witness: an Update whose email and name are blank has succeeded on a
\* stored row, whose updated_at is now later than its created_at.
C6_Witness ==
    /\ last.op = "Update" /\ last.err = "OK"
    /\ last.ureq = UpdateReq(Some(Blank), Some(Blank), Role_UNSPECIFIED)
    /\ last.id \in IdsOf(users)
    /\ RowOf(users, last.id).updated_at > RowOf(users, last.id).created_at

\* C7 as stated, at the first call after the Delete: once Delete(id) has
\* returned success, the call that follows leaves no row with that id (a
\* Get(id) after it fails).
C7_Original ==
    [][(last.op = "Delete" /\ last.err = "OK")
          => last.id \notin IdsOf(users')]_vars

\* C7 amended: once a Delete(id) has removed a row, no row ever has that id
\* again and every Get(id) fails with the Internal error.
C7_RemovedStaysGone ==
    /\ removed \cap IdsOf(users) = {}
    /\ (last.op = "Get" /\ last.id \in removed) => last.err = "Internal"

\* C7 witness: a Get of a removed id has failed while a row created after the
\* removal is stored.
C7_Witness ==
    /\ last.op = "Get" /\ last.err = "Internal"
    /\ last.id \in removed
    /\ \E u \in users : u.id > last.id

\* C8 as stated: a Create with the unspecified role that is not stopped by the
\* hashing or by a name or email already taken succeeds and stores a row with
\* role 'unspecified'.
C8_Original ==
    [][\A req \in CreateRequests :
          (/\ last'.op = "Create" /\ last'.creq = req
           /\ req.role = Role_UNSPECIFIED
           /\ last'.msg # "hash"
           /\ ~Collides(users, req)
           /\ Create(req))
              => /\ last'.err = "OK"
                 /\ last'.res.id \in IdsOf(users')
                 /\ ScanRole(RowOf(users', last'.res.id).role) = Role_UNSPECIFIED]_vars

\* C8 amended: a Create with the unspecified role is refused: it fails with the
\* Internal error and stores no row.
C8_UnspecifiedRefused ==
    [][\A req \in CreateRequests :
          (last'.op = "Create" /\ last'.creq = req
              /\ req.role = Role_UNSPECIFIED /\ Create(req))
              => (last'.err = "Internal" /\ users' = users /\ seq' = seq)]_vars

\* C8 witness: a Create with the unspecified role has failed at the INSERT
\* though no row holds its name or its email.
C8_Witness ==
    /\ last.op = "Create" /\ last.err = "Internal" /\ last.msg = "insert"
    /\ last.creq.role = Role_UNSPECIFIED
    /\ ~Collides(users, last.creq)

\* C9: in every reachable state every row's name is non-empty after trimming.
C9_NamesNonEmpty ==
    \A u \in users : TrimSpace(u.name) # <<>>

\* C10: an Update or a Delete of an id that no row has returns success and
\* leaves the table as it was.
C10_MissingIdNoOp ==
    [][(/\ last'.op \in {"Update", "Delete"}
        /\ last'.id \in Ids
        /\ last'.id \notin IdsOf(users)
        /\ \/ last'.op = "Delete" /\ Delete(last'.id)
           \/ last'.op = "Update" /\ Update(last'.id, last'.ureq))
          => (last'.err = "OK" /\ users' = users)]_vars

\* C10 witness: an Update that sets name, email and role has returned success
\* for an id that was never assigned, while rows are stored.
C10_Witness ==
    /\ last.op = "Update" /\ last.err = "OK"
    /\ last.ureq = UpdateReq(Some(EmailX), Some(NameA), Role_ADMIN)
    /\ last.id \notin created
    /\ users # {}

====
